---- MODULE Spec2Model ----
(***************************************************************************)
(* Model of servicename_finder.py: the parallel chunked scan of a Suricata *)
(* rule file for lines whose msg field contains a service name.            *)
(*                                                                         *)
(* Text is modelled as sequences of one-character strings, so that the     *)
(* regular expression, lower(), rstrip() and the bytes of the output file  *)
(* are computed character by character.                                    *)
(***************************************************************************)
EXTENDS Integers, Sequences, FiniteSets, TLC

(***************************************************************************)
(* Bounds of the model.                                                    *)
(***************************************************************************)
\* longest input file, in lines
MaxLines == 3
\* largest value of --threads
MaxThreads == 2
\* number of pieces a line of the extractor specification is built from
MaxPieces == 6
\* the most writes of the OS, among those of one run, that are cut short
MaxShortWrites == 1

(***************************************************************************)
(* Sizes of the file objects open() returns.                               *)
(***************************************************************************)
\* the chunk size of io.TextIOWrapper, in characters
ChunkSize == 8192
\* the buffer size of io.BufferedWriter: the block size of the file
BufferSize == 4096

(***************************************************************************)
(* Characters and strings.                                                 *)
(***************************************************************************)
QUOTE == "\""

\* str.lower() on the characters of the model
LowerChar(c) ==
  CASE c = "A" -> "a"
    [] c = "B" -> "b"
    [] c = "M" -> "m"
    [] c = "S" -> "s"
    [] c = "G" -> "g"
    [] c = "O" -> "o"
    [] OTHER -> c

Lower(s) == [i \in 1..Len(s) |-> LowerChar(s[i])]

\* s[from..to] with Python's 0-based half-open slice written 1-based inclusive
Slice(s, from, to) == SubSeq(s, from, to)

\* Python's `needle in haystack` for strings
Contains(haystack, needle) ==
  \E i \in 0..(Len(haystack) - Len(needle)) :
     Slice(haystack, i + 1, i + Len(needle)) = needle

\* the characters str.rstrip() removes
Whitespace == {" ", "\n", "\t", "\r"}

RECURSIVE rstrip(_)
rstrip(s) ==
  IF Len(s) > 0 /\ s[Len(s)] \in Whitespace
    THEN rstrip(SubSeq(s, 1, Len(s) - 1))
    ELSE s

RECURSIVE Flatten(_)
\* "".join(seq)
Flatten(seq) ==
  IF seq = <<>> THEN <<>> ELSE Head(seq) \o Flatten(Tail(seq))

(***************************************************************************)
(* service_pattern = re.compile(r'msg:"([^"]+)"', re.IGNORECASE)           *)
(***************************************************************************)
\* the literal prefix of the pattern
PatternLiteral == <<"m", "s", "g", ":", QUOTE>>

\* re.IGNORECASE comparison of a pattern character with a subject character
\* (CharMatchExact: the comparison without the flag)
CharMatchExact(p, c) == p = c
CharMatch(p, c) == LowerChar(p) = LowerChar(c)

\* the literal msg:" matches the subject starting at 1-based position i
LiteralAt(line, i) ==
  /\ i + Len(PatternLiteral) - 1 <= Len(line)
  /\ \A k \in 1..Len(PatternLiteral) : CharMatch(PatternLiteral[k], line[i + k - 1])

RECURSIVE RunEnd(_, _)
\* [^"]+ is greedy: from position j, the position after the longest run of
\* characters that are not a double quote
RunEnd(line, j) ==
  IF j <= Len(line) /\ line[j] # QUOTE THEN RunEnd(line, j + 1) ELSE j

\* the result of a search that found nothing
NoMatch == [matched |-> FALSE, group |-> <<>>]

\* the attempt of the pattern at position i: the captured group, or no match.
\* Giving back characters of the run never helps, since the character that
\* must follow it is the quote the run stopped at.
\* (MatchAtAllowEmpty: the pattern with [^"]* in place of [^"]+)
MatchAtAllowEmpty(line, i) ==
  IF ~LiteralAt(line, i) THEN NoMatch
  ELSE LET b == i + Len(PatternLiteral)
           e == RunEnd(line, b)
       IN  IF e <= Len(line)
             THEN [matched |-> TRUE, group |-> Slice(line, b, e - 1)]
             ELSE NoMatch
MatchAt(line, i) ==
  IF ~LiteralAt(line, i) THEN NoMatch
  ELSE LET b == i + Len(PatternLiteral)
           e == RunEnd(line, b)
       IN  IF e > b /\ e <= Len(line)
             THEN [matched |-> TRUE, group |-> Slice(line, b, e - 1)]
             ELSE NoMatch

RECURSIVE SearchFrom(_, _)
\* pattern.search(line): the attempts are made left to right
SearchFrom(line, i) ==
  IF i > Len(line) THEN NoMatch
  ELSE IF MatchAt(line, i).matched THEN MatchAt(line, i)
  ELSE SearchFrom(line, i + 1)

\* match = self.service_pattern.search(line), with match.group(1)
Extract(line) == SearchFrom(line, 1)

(***************************************************************************)
(* _find_matches: the test one line goes through.                          *)
(***************************************************************************)
\* (InsensitiveEquals: equality in place of `in`; CaseSensitiveContains:
\* `in` without the two lower())
InsensitiveEquals(msg_content, service_name) ==
  Lower(msg_content) = Lower(service_name)
CaseSensitiveContains(msg_content, service_name) ==
  Contains(msg_content, service_name)
\* service_name_lower in msg_content.lower()
InsensitiveContains(msg_content, service_name) ==
  Contains(Lower(msg_content), Lower(service_name))

\* the two `continue` tests of the loop body, negated
LineMatches(line, service_name) ==
  LET match == Extract(line)
  IN  /\ match.matched
      /\ match.group # <<>>
      /\ InsensitiveContains(match.group, service_name)

(***************************************************************************)
(* _split_lines_evenly                                                     *)
(***************************************************************************)
Min(a, b) == IF a < b THEN a ELSE b

\* lines[start:end] for 0 <= start: Python clips both ends to len(lines)
\* (ChunkSliceOverlapping: lines[start-1:end], one line too early)
ChunkSliceOverlapping(lines, start, end) ==
  SubSeq(lines, Min(start, Len(lines)) + (IF start > 0 THEN 0 ELSE 1),
         Min(end, Len(lines)))
ChunkSlice(lines, start, end) ==
  SubSeq(lines, Min(start, Len(lines)) + 1, Min(end, Len(lines)))

\* end = start + avg + (1 if i < remainder else 0)
\* (ChunkEndNoRemainder: the remainder forgotten; ChunkEndOffByOne: <= for <)
ChunkEndNoRemainder(start, avg, remainder, i) == start + avg
ChunkEndOffByOne(start, avg, remainder, i) ==
  start + avg + (IF i <= remainder THEN 1 ELSE 0)
ChunkEnd(start, avg, remainder, i) ==
  start + avg + (IF i < remainder THEN 1 ELSE 0)

RECURSIVE SplitLoop(_, _, _, _, _, _)
\* the for loop: i runs over range(num_chunks), start is 0-based
SplitLoop(lines, num_chunks, avg, remainder, i, start) ==
  IF i >= num_chunks THEN <<>>
  ELSE LET end == ChunkEnd(start, avg, remainder, i)
       IN  <<ChunkSlice(lines, start, end)>>
             \o SplitLoop(lines, num_chunks, avg, remainder, i + 1, end)

\* Called with num_chunks # 0 (the division raises ZeroDivisionError for 0).
\* For num_chunks < 0 range(num_chunks) is empty and no chunk is made; for
\* num_chunks > 0 Python's // and % are TLA+'s \div and %.
split_lines_evenly(lines, num_chunks) ==
  IF num_chunks < 0 THEN <<>>
  ELSE SplitLoop(lines, num_chunks, Len(lines) \div num_chunks,
                 Len(lines) % num_chunks, 0, 0)

(***************************************************************************)
(* The inputs of a run.                                                    *)
(***************************************************************************)
\* msg:"aB"<newline>
RuleA == <<"m", "s", "g", ":", QUOTE, "a", "B", QUOTE, "\n">>
\* MsG:"b" <newline>, with a blank before the line terminator
RuleB == <<"M", "s", "G", ":", QUOTE, "b", QUOTE, " ", "\n">>
\* b<newline>, a line without a msg field
RuleNoMsg == <<"b", "\n">>
\* msg:""MsG:"Ba"<newline>, an empty msg field before one that is not
RuleTwoFields ==
  <<"m", "s", "g", ":", QUOTE, QUOTE, "M", "s", "G", ":", QUOTE, "B", "a", QUOTE, "\n">>

RuleLines == {RuleA, RuleB, RuleNoMsg}

RECURSIVE SeqsUpTo(_, _)
\* the sequences over S of length at most n
SeqsUpTo(S, n) ==
  IF n = 0 THEN {<<>>}
  ELSE LET shorter == SeqsUpTo(S, n - 1)
       IN  shorter \cup {Append(q, x) : q \in {r \in shorter : Len(r) = n - 1}, x \in S}

\* the contents the input file may have
InputFiles == SeqsUpTo(RuleLines, MaxLines)

\* the values of --service_name
ServiceNames == {<<>>, <<"B">>}

\* the values of --threads
ThreadCounts == (-1)..MaxThreads

\* what open(input_file) and readlines() can do
InputStates == {"ok", "missing", "ioerror", "undecodable"}

\* what the output file holds before the run
OldFiles == {<<>>, <<"o", "\n">>}

(***************************************************************************)
(* The state of a run.                                                     *)
(***************************************************************************)
VARIABLES
  service_name,   \* self.service_name
  num_threads,    \* self.num_threads
  to_file,        \* TRUE when self.output_file is set (the File sink)
  input_state,    \* whether the input file can be opened and read
  input_text,     \* the lines of the input file
  old_file,       \* the output file as it was when the run began
  short_writes,   \* how many writes of the run the OS may cut short
  disk,           \* the output file, as sequence of characters
  pc,             \* where main / process_file_in_chunks is
  exc,            \* the exception that is propagating to main, or "none"
  lines,          \* the local `lines` of process_file_in_chunks
  chunks,         \* the local `chunks`
  next_chunk,     \* the position of `for chunk in chunks` (1-based)
  futures,        \* the local `futures`: the chunks submitted, in order
  task,           \* per chunk, the state of its _search_for_service_in_chunk call
  collected,      \* the futures as_completed has handed out
  total_matches,  \* the local `total_matches`
  log,            \* the records handed to the logging module, in order
  exit_code,      \* <<status>> once the process has ended, <<>> before
  subject,        \* the line given to service_pattern.search on its own
  found           \* the result of that search, with done = FALSE before it

vars == <<service_name, num_threads, to_file, input_state, input_text, old_file,
          short_writes, disk, pc, exc, lines, chunks, next_chunk, futures, task, collected,
          total_matches, log, exit_code, subject, found>>

config == <<service_name, num_threads, to_file, input_state, input_text, old_file,
            short_writes>>

\* the logger of the class, self.logger, which has a handler of its own
\* (LoggerManager, lines 29-37), and the root logger that the module-level
\* logging.error of lines 147 and 244 logs to
OwnLogger == "SuricataRuleSearcher"
RootLogger == "root"

\* a log record: the logger it is handed to, its level, which message it is,
\* and the values formatted into it
LogRecord(logger, level, msg, text, n) ==
  [logger |-> logger, level |-> level, msg |-> msg, text |-> text, n |-> n]

\* What the handlers write to stderr for record k of a log. The root logger
\* has no handler until the first logging.error call, which installs one
\* (logging.basicConfig); a record of self.logger is written by the handler
\* of self.logger and then propagates to the handlers of the root logger.
EmittedFor(records, k) ==
  IF records[k].logger = RootLogger
    THEN <<[handler |-> RootLogger, record |-> records[k]]>>
    ELSE <<[handler |-> OwnLogger, record |-> records[k]]>>
           \o (IF \E j \in 1..(k - 1) : records[j].logger = RootLogger
                 THEN <<[handler |-> RootLogger, record |-> records[k]]>>
                 ELSE <<>>)

RECURSIVE EmittedUpTo(_, _)
EmittedUpTo(records, n) ==
  IF n = 0 THEN <<>> ELSE EmittedUpTo(records, n - 1) \o EmittedFor(records, n)

\* a task before it is submitted
\* st: where the call is; i: the line of the chunk the loop is at;
\* pending: the text the TextIOWrapper holds; buf: the text the
\* BufferedWriter holds; todo: what the current call on the handle has still
\* to do; closing: the `with` is closing the file; raised: an exception is
\* on its way out of the call; short: the short writes so far; spans: where
\* in the file the OS has put the writes of the task; sent: what the task
\* has handed to its sink
NoTask == [st |-> "none", i |-> 1, matched_lines |-> 0, pending |-> <<>>,
           buf |-> <<>>, todo |-> <<>>, closing |-> FALSE, raised |-> FALSE,
           short |-> 0, spans |-> <<>>, sent |-> <<>>, result |-> 0]

\* the process has just been started
Started ==
  /\ disk = old_file
  /\ pc = "main"
  /\ exc = "none"
  /\ lines = <<>>
  /\ chunks = <<>>
  /\ next_chunk = 1
  /\ futures = <<>>
  /\ task = <<>>
  /\ collected = {}
  /\ total_matches = 0
  /\ log = <<>>
  /\ exit_code = <<>>
  /\ subject = <<>>
  /\ found = [done |-> FALSE, matched |-> FALSE, group |-> <<>>]

\* The runs of Spec are those in which the OS takes or refuses each write
\* whole; SpecFile has the runs in which it cuts writes short.
Init ==
  /\ service_name \in ServiceNames
  /\ num_threads \in ThreadCounts
  /\ to_file \in BOOLEAN
  /\ input_state \in InputStates
  /\ input_text \in InputFiles
  /\ input_state # "ok" => input_text = <<>>
  /\ old_file \in OldFiles
  /\ ~to_file => old_file = <<>>
  /\ short_writes = 0
  /\ Started

(***************************************************************************)
(* process_file_in_chunks, up to the thread pool.                          *)
(***************************************************************************)
\* raise: the exception leaves process_file_in_chunks and run() for main
Raise(e) ==
  /\ pc' = "raised"
  /\ exc' = e

\* Lines 123-127. With an empty name _validate_service_name logs and returns
\* False and sys.exit(1) raises SystemExit, so the second check is not
\* reached; with a name, both checks return True and log nothing.
Validate ==
  /\ pc = "main"
  /\ IF service_name = <<>>
       THEN /\ log' = Append(log, LogRecord(OwnLogger, "ERROR", "no_service_name", service_name, 0))
            /\ Raise("SystemExit")
       ELSE /\ pc' = "validated"
            /\ UNCHANGED <<log, exc>>
  /\ UNCHANGED <<config, disk, lines, chunks, next_chunk, futures, task, collected,
                 total_matches, exit_code, subject, found>>

\* Lines 129-131 with load_file: the start message, then the read.
\* FileNotFoundError and IOError are logged and turned into sys.exit(1);
\* a UnicodeDecodeError (a ValueError) from readlines() is not caught here.
LoadFile ==
  /\ pc = "validated"
  /\ LET started == Append(log, LogRecord(OwnLogger, "INFO", "starting", service_name, num_threads))
     IN  CASE input_state = "ok" ->
                /\ lines' = input_text
                /\ log' = started
                /\ pc' = "loaded"
                /\ UNCHANGED exc
           [] input_state = "missing" ->
                /\ log' = Append(started, LogRecord(OwnLogger, "ERROR", "file_not_found", <<>>, 0))
                /\ Raise("SystemExit")
                /\ UNCHANGED lines
           [] input_state = "ioerror" ->
                /\ log' = Append(started, LogRecord(OwnLogger, "ERROR", "io_error", <<>>, 0))
                /\ Raise("SystemExit")
                /\ UNCHANGED lines
           [] OTHER ->
                /\ log' = started
                /\ Raise("UnicodeDecodeError")
                /\ UNCHANGED lines
  /\ UNCHANGED <<config, disk, chunks, next_chunk, futures, task, collected,
                 total_matches, exit_code, subject, found>>

\* Line 133: chunks = self._split_lines_evenly(lines, self.num_threads)
Split ==
  /\ pc = "loaded"
  /\ IF num_threads = 0
       THEN /\ Raise("ZeroDivisionError")
            /\ UNCHANGED <<chunks, task>>
       ELSE /\ chunks' = split_lines_evenly(lines, num_threads)
            /\ task' = [c \in 1..Len(chunks') |-> NoTask]
            /\ pc' = "split"
            /\ UNCHANGED exc
  /\ UNCHANGED <<config, disk, lines, next_chunk, futures, collected,
                 total_matches, log, exit_code, subject, found>>

\* Line 135: ThreadPoolExecutor(max_workers) raises ValueError for
\* max_workers <= 0
\* (MaxWorkersRejectedNever: a pool that takes any max_workers)
MaxWorkersRejectedNever(n) == FALSE
MaxWorkersRejected(n) == n <= 0

\* Line 135, the pool is made or refuses its max_workers; lines 136-137 set
\* the locals.
CreateExecutor ==
  /\ pc = "split"
  /\ IF MaxWorkersRejected(num_threads)
       THEN /\ Raise("ValueError")
            /\ UNCHANGED <<total_matches, futures, next_chunk>>
       ELSE /\ total_matches' = 0
            /\ futures' = <<>>
            /\ next_chunk' = 1
            /\ pc' = "submit"
            /\ UNCHANGED exc
  /\ UNCHANGED <<config, disk, lines, chunks, task, collected, log, exit_code,
                 subject, found>>

\* `if chunk:` of line 139: an empty list is false
\* (ShouldSubmitAlways: the loop without the test)
ShouldSubmitAlways(chunk) == TRUE
ShouldSubmit(chunk) == chunk # <<>>

\* futures.append(executor.submit(..., chunk, ...)) of line 140: one future
\* for the chunk, named here by the index of its chunk
\* (SubmitChunkTwice: the chunk submitted a second time)
SubmitChunkTwice(fs, c) == Append(Append(fs, c), c)
SubmitChunk(fs, c) == Append(fs, c)

\* Lines 138-140, one iteration of the loop: a chunk that is not empty is
\* submitted; after the last chunk the loop over as_completed begins.
Submit ==
  /\ pc = "submit"
  /\ IF next_chunk > Len(chunks)
       THEN /\ pc' = "collect"
            /\ UNCHANGED <<next_chunk, futures, task>>
       ELSE /\ next_chunk' = next_chunk + 1
            /\ IF ShouldSubmit(chunks[next_chunk])
                 THEN /\ futures' = SubmitChunk(futures, next_chunk)
                      /\ task' = [task EXCEPT ![next_chunk].st = "queued"]
                 ELSE UNCHANGED <<futures, task>>
            /\ UNCHANGED pc
  /\ UNCHANGED <<config, disk, exc, lines, chunks, collected, total_matches, log,
                 exit_code, subject, found>>

(***************************************************************************)
(* The File sink: a text file opened with open(path, 'a'). The handle is   *)
(* an io.TextIOWrapper, which collects the text of write() calls, over an  *)
(* io.BufferedWriter, which collects what the text layer hands down, over  *)
(* a descriptor opened with O_APPEND.                                      *)
(***************************************************************************)
\* TextIOWrapper.write(line): the line joins the pending text
\* (PendingAddReplacing: the line takes the place of the pending text)
PendingAddReplacing(pending, line) == line
\* (PendingAddPrepending: the newest line is put first)
PendingAddPrepending(pending, line) == line \o pending
PendingAdd(pending, line) == pending \o line

\* TextIOWrapper.write: the pending text is handed down first when it and
\* the line together would be more than the chunk size
ShouldFlushBefore(pending, line) == Len(pending) + Len(line) > ChunkSize

\* TextIOWrapper.write: the pending text, the line included, is handed down
\* once it has reached the chunk size
ShouldFlushAfter(pending) == Len(pending) >= ChunkSize

\* BufferedWriter.write: data that fits in what is left of the buffer is
\* copied into it
FitsBuffer(buf, data) == Len(data) <= BufferSize - Len(buf)

\* BufferedWriter.write, after the buffer has been written out: data longer
\* than the buffer goes to the descriptor directly, the rest is kept
WrittenDirectly(data) == Len(data) > BufferSize

\* one write of the OS on a descriptor opened for appending: the data goes
\* to the end of the file, whatever other descriptors have written meanwhile
\* (RawWriteOverwriting: a descriptor opened with 'w', which writes from the
\* start of a file it has emptied)
RawWriteOverwriting(file, data) == data
RawWrite(file, data) == file \o data

\* What a call on the handle has still to do, in order. `op` is
\*   "add"    TextIOWrapper.write joins `data` to the pending text
\*   "bwrite" BufferedWriter.write(data)
\*   "flush"  BufferedWriter writes its buffer out, one OS write at a time
\*   "direct" BufferedWriter writes `data` that is longer than its buffer
\* `stage` is the call the step belongs to: "write" is outfile.write(line),
\* "tflush" the flush() of TextIOWrapper.close(), "bclose" the flush of the
\* BufferedWriter.close() that follows it.
Cmd(op, stage, data) == [op |-> op, stage |-> stage, data |-> data]

\* outfile.write(line) with `pending` collected so far
WriteCmds(pending, line) ==
  IF ShouldFlushBefore(pending, line)
    THEN <<Cmd("bwrite", "write", pending), Cmd("add", "write", line)>>
    ELSE <<Cmd("add", "write", line)>>

\* the close() of the `with`: TextIOWrapper.flush() hands the pending text
\* down and flushes the buffer, BufferedWriter.close() flushes again
CloseCmds(pending) ==
  <<Cmd("bwrite", "tflush", pending), Cmd("flush", "tflush", <<>>),
    Cmd("flush", "bclose", <<>>)>>

RECURSIVE Settle(_)
\* The task runs on until its next step is a write of the OS, or nothing is
\* left to do.
Settle(t) ==
  IF t.todo = <<>> THEN t
  ELSE LET c == Head(t.todo)
           rest == Tail(t.todo)
       IN  CASE c.op = "add" ->
                  LET p == PendingAdd(t.pending, c.data)
                  IN  IF ShouldFlushAfter(p)
                        THEN Settle([t EXCEPT !.pending = <<>>,
                                              !.todo = <<Cmd("bwrite", c.stage, p)>> \o rest])
                        ELSE Settle([t EXCEPT !.pending = p, !.todo = rest])
             [] c.op = "bwrite" ->
                  IF c.data = <<>>
                    THEN Settle([t EXCEPT !.todo = rest])
                    ELSE IF FitsBuffer(t.buf, c.data)
                      THEN Settle([t EXCEPT !.buf = @ \o c.data, !.todo = rest])
                      ELSE Settle([t EXCEPT !.todo =
                                     <<Cmd("flush", c.stage, <<>>),
                                       Cmd("direct", c.stage, c.data)>> \o rest])
             [] c.op = "flush" ->
                  IF t.buf = <<>> THEN Settle([t EXCEPT !.todo = rest]) ELSE t
             [] OTHER ->
                  IF WrittenDirectly(c.data)
                    THEN t
                    ELSE Settle([t EXCEPT !.buf = c.data, !.todo = rest])

\* the text the next write of the OS is given
RawData(t) ==
  IF Head(t.todo).op = "flush" THEN t.buf ELSE Head(t.todo).data

\* The numbers of characters the OS may take of the next write: all of
\* them, none (the write is refused and raises OSError), or, while `short`
\* holds, some of them (a short write).
Outcomes(t, short) ==
  {n \in 0..Len(RawData(t)) : n \in {0, Len(RawData(t))} \/ short}

\* the steps that are not of the given stage
NotOfStage(todo, stage) ==
  LET Other(c) == c.stage # stage
  IN  SelectSeq(todo, Other)

\* The OS has refused the write: the exception leaves the call that was
\* being made, with what that call had taken from the pending text; the
\* buffer keeps what it held. An exception out of outfile.write(line) leaves
\* the loop, and the `with` closes the file.
AfterRefusal(t) ==
  LET stage == Head(t.todo).stage
  IN  [t EXCEPT !.raised = TRUE,
                !.closing = TRUE,
                !.todo = IF stage = "write"
                           THEN CloseCmds(t.pending)
                           ELSE NotOfStage(t.todo, stage),
                !.pending = <<>>]

\* The OS has taken the first n characters, n >= 1, at offset `at`: the
\* rest stays to be written by the loop the step belongs to.
AfterTaken(t, n, at) ==
  LET c == Head(t.todo)
      d == RawData(t)
      left == SubSeq(d, n + 1, Len(d))
  IN  [t EXCEPT !.spans = Append(@, [at |-> at, n |-> n]),
                !.short = IF n < Len(d) THEN @ + 1 ELSE @,
                !.buf = IF c.op = "flush" THEN left ELSE @,
                !.todo = IF c.op = "flush"
                           THEN @
                           ELSE <<Cmd("direct", c.stage, left)>> \o Tail(@)]

\* close() has returned or raised: the call of the pool thread ends, with
\* matched_lines as its result or with the exception
Conclude(t) ==
  IF t.todo = <<>> /\ t.closing
    THEN IF t.raised
           THEN [t EXCEPT !.st = "failed"]
           ELSE [t EXCEPT !.st = "done", !.result = t.matched_lines]
    ELSE t

(***************************************************************************)
(* _search_for_service_in_chunk and _find_matches, run by a pool thread.   *)
(***************************************************************************)
Tasks == DOMAIN task

Running == {w \in Tasks : task[w].st = "running"}

\* The pool runs a queued call on one of its max_workers threads. Lines
\* 86-90: with an output file the call opens it for appending first, which
\* raises OSError when it cannot be opened. Lines 95-99: the locals of
\* _find_matches; an empty service name skips the loop.
Start(w) ==
  /\ task[w].st = "queued"
  /\ Cardinality(Running) < num_threads
  /\ \E opened \in BOOLEAN :
       /\ ~to_file => opened
       /\ task' = [task EXCEPT ![w] =
            IF opened
              THEN [@ EXCEPT !.st = "running",
                             !.matched_lines = 0,
                             !.i = IF service_name = <<>> THEN Len(chunks[w]) + 1 ELSE 1]
              ELSE [@ EXCEPT !.st = "failed"]]
  /\ UNCHANGED <<config, disk, pc, exc, lines, chunks, next_chunk, futures, collected,
                 total_matches, log, exit_code, subject, found>>

RECURSIVE ShortSoFar(_)
\* the short writes of the first c tasks
ShortSoFar(c) == IF c = 0 THEN 0 ELSE ShortSoFar(c - 1) + task[c].short

\* The task, with the steps `t` has to do, runs up to and including its
\* next write of the OS and on to the one after, or to the end of the call.
\* The OS cuts at most short_writes writes of a run short.
IOStep(w, t) ==
  LET s == Settle(t)
  IN  IF s.todo = <<>>
        THEN /\ task' = [task EXCEPT ![w] = Conclude(s)]
             /\ UNCHANGED disk
        ELSE \E n \in Outcomes(s, ShortSoFar(Len(task)) < short_writes) :
               IF n = 0
                 THEN /\ task' = [task EXCEPT ![w] = Conclude(Settle(AfterRefusal(s)))]
                      /\ UNCHANGED disk
                 ELSE /\ disk' = RawWrite(disk, SubSeq(RawData(s), 1, n))
                      /\ task' = [task EXCEPT ![w] =
                                    Conclude(Settle(AfterTaken(s, n, Len(disk))))]

\* Lines 101-115, one iteration of `for line in chunk`, up to and including
\* the first write of the OS that outfile.write(line) makes, if it makes
\* one.
ScanLine(w) ==
  /\ task[w].st = "running"
  /\ task[w].todo = <<>>
  /\ ~task[w].closing
  /\ task[w].i <= Len(chunks[w])
  /\ LET line == chunks[w][task[w].i]
         t == [task[w] EXCEPT !.i = @ + 1]
     IN  IF ~LineMatches(line, service_name)
           THEN /\ task' = [task EXCEPT ![w] = t]
                /\ UNCHANGED <<disk, log>>
           ELSE IF to_file
             THEN /\ IOStep(w, [t EXCEPT !.matched_lines = @ + 1,
                                         !.sent = Append(@, line),
                                         !.pending = IF ShouldFlushBefore(@, line)
                                                       THEN <<>> ELSE @,
                                         !.todo = WriteCmds(t.pending, line)])
                  /\ UNCHANGED log
             ELSE /\ task' = [task EXCEPT ![w] =
                        [t EXCEPT !.matched_lines = @ + 1,
                                  !.sent = Append(@, rstrip(line))]]
                  /\ log' = Append(log, LogRecord(OwnLogger, "INFO", "match", rstrip(line), 0))
                  /\ UNCHANGED disk
  /\ UNCHANGED <<config, pc, exc, lines, chunks, next_chunk, futures, collected,
                 total_matches, exit_code, subject, found>>

\* A call on the handle that has more than one write of the OS to make goes
\* on: the next write, at line 113 inside outfile.write(line) or at the
\* close of the `with` of line 89.
OSWrite(w) ==
  /\ task[w].st = "running"
  /\ task[w].todo # <<>>
  /\ IOStep(w, task[w])
  /\ UNCHANGED <<config, pc, exc, lines, chunks, next_chunk, futures, collected,
                 total_matches, log, exit_code, subject, found>>

\* Lines 117 and 89-92: the loop is over, _find_matches returns
\* matched_lines and the `with` closes the file, up to and including the
\* first write of the OS the close makes; without an output file the call
\* returns the count.
Finish(w) ==
  /\ task[w].st = "running"
  /\ task[w].todo = <<>>
  /\ ~task[w].closing
  /\ task[w].i > Len(chunks[w])
  /\ IOStep(w, [task[w] EXCEPT !.closing = TRUE,
                               !.pending = <<>>,
                               !.todo = IF to_file THEN CloseCmds(task[w].pending) ELSE <<>>])
  /\ UNCHANGED <<config, pc, exc, lines, chunks, next_chunk, futures, collected,
                 total_matches, log, exit_code, subject, found>>

(***************************************************************************)
(* process_file_in_chunks, the collection of the results, and main.        *)
(***************************************************************************)
Range(seq) == {seq[k] : k \in DOMAIN seq}

\* the classes `except Exception` catches, among those the run can raise
Exceptions == {"OSError", "ValueError", "ZeroDivisionError", "UnicodeDecodeError"}

\* `except Exception as e` around future.result(), line 146
\* (CaughtInLoopNever: the loop without its try)
CaughtInLoopNever(e) == FALSE
CaughtInLoop(e) == e \in Exceptions

\* total_matches += matches
\* (AccumulateLast: = in place of +=)
AccumulateLast(total, matches) == matches
Accumulate(total, matches) == total + matches

\* Lines 142-147, one iteration: as_completed yields a future that has
\* finished, in no fixed order; result() returns the count or raises what the
\* call raised, which is logged.
Collect(w) ==
  /\ pc = "collect"
  /\ w \in Range(futures) \ collected
  /\ task[w].st \in {"done", "failed"}
  /\ collected' = collected \cup {w}
  /\ IF task[w].st = "done"
       THEN /\ total_matches' = Accumulate(total_matches, task[w].result)
            /\ UNCHANGED <<log, pc, exc>>
       ELSE IF CaughtInLoop("OSError")
         THEN /\ log' = Append(log, LogRecord(RootLogger, "ERROR", "error_in_thread", <<>>, 0))
              /\ UNCHANGED <<total_matches, pc, exc>>
         ELSE /\ Raise("OSError")
              /\ UNCHANGED <<total_matches, log>>
  /\ UNCHANGED <<config, disk, lines, chunks, next_chunk, futures, task,
                 exit_code, subject, found>>

\* Line 149, after the loop has consumed every future: the summary.
Summary ==
  /\ pc = "collect"
  /\ collected = Range(futures)
  /\ log' = Append(log, LogRecord(OwnLogger, "INFO", "total", service_name, total_matches))
  /\ pc' = "summarised"
  /\ UNCHANGED <<config, disk, exc, lines, chunks, next_chunk, futures, task,
                 collected, total_matches, exit_code, subject, found>>

\* The pool is shut down, run() and main() return: the process ends with 0.
ExitNormally ==
  /\ pc = "summarised"
  /\ pc' = "exited"
  /\ exit_code' = <<0>>
  /\ UNCHANGED <<config, disk, exc, lines, chunks, next_chunk, futures, task,
                 collected, total_matches, log, subject, found>>

\* `except Exception` of main, line 243: SystemExit is not an Exception
\* (CaughtByMainAlways: `except BaseException`)
CaughtByMainAlways(e) == TRUE
CaughtByMain(e) == e \in Exceptions

\* The status the process ends with: the code of the SystemExit raised by
\* sys.exit(1) at lines 67, 70 and 124, or the sys.exit(1) of main's
\* handler at line 245.
\* (HandlerStatusNoExit: the handler without its sys.exit(1))
HandlerStatusNoExit(e) == IF e = "SystemExit" THEN 1 ELSE 0
HandlerStatus(e) == IF e = "SystemExit" THEN 1 ELSE 1

\* Lines 237-245: an Exception is logged and turned into sys.exit(1); the
\* SystemExit of a sys.exit(1) ends the process with status 1.
MainHandler ==
  /\ pc = "raised"
  /\ IF CaughtByMain(exc)
       THEN log' = Append(log, LogRecord(RootLogger, "ERROR", "unexpected_error", <<>>, 0))
       ELSE UNCHANGED log
  /\ pc' = "exited"
  /\ exit_code' = <<HandlerStatus(exc)>>
  /\ UNCHANGED <<config, disk, exc, lines, chunks, next_chunk, futures, task,
                 collected, total_matches, subject, found>>

Next ==
  \/ Validate
  \/ LoadFile
  \/ Split
  \/ CreateExecutor
  \/ Submit
  \/ \E w \in Tasks : Start(w)
  \/ \E w \in Tasks : ScanLine(w)
  \/ \E w \in Tasks : OSWrite(w)
  \/ \E w \in Tasks : Finish(w)
  \/ \E w \in Tasks : Collect(w)
  \/ Summary
  \/ ExitNormally
  \/ MainHandler

Spec == Init /\ [][Next]_vars

\* the pool threads and the main thread all get to run
FairSpec ==
  /\ Spec
  /\ WF_vars(Next)

(***************************************************************************)
(* Runs with one worker, over more lines and more service names: the whole *)
(* file is the one chunk _find_matches is given.                           *)
(***************************************************************************)
ScanLines == RuleLines \cup {RuleTwoFields}

ScanTargets == {<<"b">>, <<"a", "B">>, <<"B", "A">>, <<"a", "b", "a">>}

ScanInit ==
  /\ service_name \in ScanTargets
  /\ num_threads = 1
  /\ to_file \in BOOLEAN
  /\ input_state \in InputStates
  /\ input_text \in SeqsUpTo(ScanLines, MaxLines)
  /\ input_state # "ok" => input_text = <<>>
  /\ old_file = <<>>
  /\ short_writes = 0
  /\ Started

SpecScan == ScanInit /\ [][Next]_vars

(***************************************************************************)
(* Runs with the File sink. Over short lines the OS may cut writes short,  *)
(* as it does when the disk fills up or a file size limit is reached. Over *)
(* lines as long as the buffers of the handle, text reaches the file       *)
(* before the close, and the OS takes or refuses each write whole.         *)
(***************************************************************************)
\* one matched line; two; two with a line between them that has no msg
\* field; three, the first and the last the same
ShortInputs ==
  { <<RuleA>>, <<RuleA, RuleB>>, <<RuleA, RuleNoMsg, RuleB>>, <<RuleA, RuleB, RuleA>> }

\* a matched line of n characters: msg:"aB", blanks, and the line terminator
LongLine(n) ==
  [k \in 1..n |-> IF k < Len(RuleA) THEN RuleA[k] ELSE IF k = n THEN "\n" ELSE " "]

\* a line and a half of the buffer
HalfMore == BufferSize + BufferSize \div 2

\* lines that fill the buffer, the chunk, or more, alone or together
LongInputs ==
  { <<LongLine(ChunkSize)>>,
    <<LongLine(HalfMore), LongLine(HalfMore)>>,
    <<LongLine(BufferSize), LongLine(BufferSize)>>,
    <<LongLine(BufferSize), LongLine(BufferSize + 1)>>,
    <<LongLine(HalfMore), LongLine(ChunkSize + HalfMore - BufferSize), RuleA>>,
    <<LongLine(BufferSize), LongLine(BufferSize + 1), RuleB>> }

FileInputs == ShortInputs \cup LongInputs

FileThreadCounts == {1, 2}

FileInit ==
  /\ service_name = <<"B">>
  /\ num_threads \in FileThreadCounts
  /\ to_file = TRUE
  /\ input_state \in {"ok", "missing"}
  /\ input_text \in IF input_state = "ok" THEN FileInputs ELSE {<<>>}
  /\ old_file \in OldFiles
  /\ short_writes = IF input_text \in ShortInputs THEN MaxShortWrites ELSE 0
  /\ Started

SpecFile == FileInit /\ [][Next]_vars

(***************************************************************************)
(* service_pattern.search on its own, over every line built from pieces.   *)
(***************************************************************************)
\* msg: on its own, MsG:" with its opening quote, a quote, a letter, a blank
Pieces ==
  { <<"m", "s", "g", ":">>, <<"M", "s", "G", ":", QUOTE>>, <<QUOTE>>, <<"B">>, <<" ">> }

\* the lines the search is tried on
Subjects == {Flatten(q) : q \in SeqsUpTo(Pieces, MaxPieces)}

ExtractInit ==
  /\ subject \in Subjects
  /\ found = [done |-> FALSE, matched |-> FALSE, group |-> <<>>]
  /\ service_name = <<"b">>
  /\ num_threads = 1
  /\ to_file = FALSE
  /\ input_state = "ok"
  /\ input_text = <<>>
  /\ old_file = <<>>
  /\ short_writes = 0
  /\ disk = <<>>
  /\ pc = "search"
  /\ exc = "none"
  /\ lines = <<>>
  /\ chunks = <<>>
  /\ next_chunk = 1
  /\ futures = <<>>
  /\ task = <<>>
  /\ collected = {}
  /\ total_matches = 0
  /\ log = <<>>
  /\ exit_code = <<>>

\* Lines 102-106: match = self.service_pattern.search(line); group(1)
Search ==
  /\ pc = "search"
  /\ ~found.done
  /\ LET match == Extract(subject)
     IN  found' = [done |-> TRUE, matched |-> match.matched, group |-> match.group]
  /\ UNCHANGED <<config, disk, pc, exc, lines, chunks, next_chunk, futures, task,
                 collected, total_matches, log, exit_code, subject>>

ExtractNext == Search

SpecExtract == ExtractInit /\ [][ExtractNext]_vars

(***************************************************************************)
(* Properties.                                                             *)
(***************************************************************************)
\* process_file_in_chunks has computed `chunks` with a positive thread count
Partitioned ==
  /\ num_threads >= 1
  /\ pc \in {"split", "submit", "collect", "summarised"}
       \/ (pc = "exited" /\ exit_code = <<0>>)

RECURSIVE LenBefore(_, _)
\* the number of lines in the chunks before chunk c (1-based)
LenBefore(cs, c) ==
  IF c <= 1 THEN 0 ELSE LenBefore(cs, c - 1) + Len(cs[c - 1])

\* C1: for every input and every worker count N >= 1 the chunks returned by
\* _split_lines_evenly are contiguous slices of the input, in order, and
\* their concatenation in chunk order is the input: no line is lost,
\* duplicated or reordered.
C1_ChunksCoverInput ==
  Partitioned =>
    /\ Flatten(chunks) = lines
    /\ \A c \in 1..Len(chunks) :
         \A k \in 1..Len(chunks[c]) : chunks[c][k] = lines[LenBefore(chunks, c) + k]
    /\ LenBefore(chunks, Len(chunks) + 1) = Len(lines)

\* a split of three different lines into two chunks of unequal size
C1_Witness ==
  /\ pc = "split"
  /\ num_threads = 2
  /\ lines = <<RuleA, RuleB, RuleNoMsg>>
  /\ chunks = <<<<RuleA, RuleB>>, <<RuleNoMsg>>>>

\* C2: for every L >= 0 and N >= 1 there are exactly N chunks, chunk i
\* (0-based) has floor(L/N)+1 lines if i < L mod N and floor(L/N) otherwise,
\* so that two chunks differ in size by at most 1.
C2_ChunkSizes ==
  Partitioned =>
    LET L == Len(lines)
        N == num_threads
    IN  /\ Len(chunks) = N
        /\ \A i \in 0..(N - 1) :
             Len(chunks[i + 1]) = (L \div N) + (IF i < L % N THEN 1 ELSE 0)
        /\ \A c, d \in 1..Len(chunks) : Len(chunks[c]) - Len(chunks[d]) <= 1

\* fewer lines than workers: a chunk of one line and an empty chunk
C2_Witness ==
  /\ pc = "split"
  /\ num_threads = 2
  /\ Len(lines) = 1
  /\ Len(chunks) = 2
  /\ chunks[2] = <<>>
  /\ chunks[1] # <<>>

\* the run went through to its summary
Completed ==
  \/ pc = "summarised"
  \/ (pc = "exited" /\ exit_code = <<0>>)

\* the tasks that raised
Failed == {w \in Tasks : task[w].st = "failed"}

\* The extractor returns a value for the line, and the lower-case target
\* occurs in the lower-case value at some offset.
FieldHasTarget(line, target) ==
  LET m == Extract(line)
  IN  /\ m.matched
      /\ \E off \in 0..(Len(m.group) - Len(target)) :
            \A k \in 1..Len(target) : LowerChar(m.group[off + k]) = LowerChar(target[k])

\* what each sink is handed for a line
SinkForm(line) == IF to_file THEN line ELSE rstrip(line)

RECURSIVE ExpectedSent(_, _)
\* the lines among the first n of the chunk whose field has the target, as
\* the sink gets them, in chunk order
ExpectedSent(chunk, n) ==
  IF n = 0 THEN <<>>
  ELSE IF FieldHasTarget(chunk[n], service_name)
         THEN Append(ExpectedSent(chunk, n - 1), SinkForm(chunk[n]))
         ELSE ExpectedSent(chunk, n - 1)

ExpectedCount(chunk, n) ==
  Cardinality({k \in 1..n : FieldHasTarget(chunk[k], service_name)})

\* C3: with a target that is not empty, _find_matches returns the number of
\* lines of its chunk for which the extractor returns a value whose
\* lower-case form contains the lower-case target as a substring, and the
\* lines it hands to the sink are exactly those lines; a line without a msg
\* field is never counted nor handed on, and a chunk without a matching line
\* returns 0.
C3_FindMatchesCounts ==
  service_name # <<>> =>
    \A w \in Tasks :
      /\ task[w].st = "done" =>
           /\ task[w].result = ExpectedCount(chunks[w], Len(chunks[w]))
           /\ task[w].sent = ExpectedSent(chunks[w], Len(chunks[w]))
      /\ task[w].st = "running" =>
           /\ task[w].matched_lines = ExpectedCount(chunks[w], task[w].i - 1)
           /\ task[w].sent = ExpectedSent(chunks[w], task[w].i - 1)
      /\ \A k \in 1..Len(chunks[w]) :
           ~Extract(chunks[w][k]).matched => SinkForm(chunks[w][k]) \notin Range(task[w].sent)
      /\ (task[w].st = "done" /\ \A k \in 1..Len(chunks[w]) :
                                    ~FieldHasTarget(chunks[w][k], service_name))
           => task[w].result = 0

\* a chunk of three lines that all have the letter b: the field of the
\* first contains the target beside another letter, the second has no msg
\* field, the third has the target in capitals in its second msg field; two
\* matches, the first and the third line
C3_Witness ==
  /\ service_name = <<"b">>
  /\ to_file
  /\ \E w \in Tasks :
       /\ task[w].st = "done"
       /\ chunks[w] = <<RuleA, RuleNoMsg, RuleTwoFields>>
       /\ task[w].result = 2
       /\ task[w].sent = <<RuleA, RuleTwoFields>>

\* C4: for the same lines and the same target the total reported is the
\* same for every worker count N >= 1, provided no worker fails: it is the
\* number of lines of the input whose field has the target.
C4_TotalIndependentOfWorkers ==
  (Completed /\ Failed = {}) =>
    /\ total_matches = ExpectedCount(lines, Len(lines))
    /\ log[Len(log)] = LogRecord(OwnLogger, "INFO", "total", service_name,
                                 ExpectedCount(lines, Len(lines)))

\* three lines scanned by two workers, two of the lines matching
C4_Witness ==
  /\ pc = "exited"
  /\ exit_code = <<0>>
  /\ num_threads = 2
  /\ Len(lines) = 3
  /\ Cardinality(Range(futures)) = 2
  /\ Failed = {}
  /\ total_matches = 2

RECURSIVE WholeLines(_, _)
\* text is a concatenation of members of the set of lines
WholeLines(text, set) ==
  \/ text = <<>>
  \/ \E l \in set :
       /\ Len(l) <= Len(text)
       /\ SubSeq(text, 1, Len(l)) = l
       /\ WholeLines(SubSeq(text, Len(l) + 1, Len(text)), set)

\* the lines of the input whose field has the target
MatchedLines == {lines[k] : k \in {j \in 1..Len(lines) : FieldHasTarget(lines[j], service_name)}}

\* what the run has added to the output file
Appended == SubSeq(disk, Len(old_file) + 1, Len(disk))

RECURSIVE TotalLen(_)
\* the number of characters of a sequence of lines
TotalLen(seq) == IF seq = <<>> THEN 0 ELSE Len(Head(seq)) + TotalLen(Tail(seq))

RECURSIVE SumOver(_, _)
\* the sum of f[w] over the set
SumOver(f, set) ==
  IF set = {} THEN 0
  ELSE LET w == CHOOSE x \in set : TRUE
       IN  f[w] + SumOver(f, set \ {w})

\* C5, as claimed: with the File sink the writes of different workers never
\* interleave inside a line: every line written by a task that returned is
\* in the file as one unbroken run of characters, and once every task has
\* returned what the run has added to the file is a concatenation of whole
\* matched lines.
C5_NoInterleavingInsideLine ==
  to_file =>
    /\ \A w \in Tasks :
         task[w].st = "done" =>
           \A k \in 1..Len(task[w].sent) : Contains(Appended, task[w].sent[k])
    /\ (\A w \in Range(futures) : task[w].st = "done") /\ pc \in {"collect", "summarised", "exited"}
         => WholeLines(Appended, MatchedLines)

\* the lines the handlers have written to stderr
Stderr == EmittedUpTo(log, Len(log))

\* the lines on stderr that are of the given message
Lines(msg) == {k \in 1..Len(Stderr) : Stderr[k].record.msg = msg}

\* the records of the log that are of the given message
Records(msg) == {k \in 1..Len(log) : log[k].msg = msg}

\* the ERROR records of the log
Errors == {k \in 1..Len(log) : log[k].level = "ERROR"}

\* the tasks that returned
Done == {w \in Tasks : task[w].st = "done"}

\* C6: a failure inside one worker is caught and logged by the orchestrator
\* and does not abort the others: no exception leaves the loop over the
\* futures, and when the run ends every other dispatched chunk has been
\* scanned to its end, its count is in the total, each failure has its log
\* record, and the summary has been emitted.
C6_WorkerFailureIsolated ==
  /\ (pc = "raised" \/ exit_code = <<1>>) => futures = <<>>
  /\ (Range(futures) # {} /\ pc \in {"summarised", "exited"}) =>
       /\ \A w \in Range(futures) :
            /\ task[w].st \in {"done", "failed"}
            /\ task[w].st = "done" =>
                 /\ task[w].i = Len(chunks[w]) + 1
                 /\ task[w].result = ExpectedCount(chunks[w], Len(chunks[w]))
       /\ total_matches = SumOver([w \in Tasks |-> task[w].result], Done)
       /\ Cardinality(Records("error_in_thread")) = Cardinality(Failed)
       /\ Cardinality(Records("total")) = 1
       /\ pc = "exited" => exit_code = <<0>>

\* a run that ended with one worker failed, after it had found a match,
\* and the other counted
C6_Witness ==
  /\ pc = "exited"
  /\ Cardinality(Failed) = 1
  /\ \E w \in Failed : task[w].matched_lines >= 1
  /\ Cardinality(Done) = 1
  /\ total_matches >= 1
  /\ Cardinality(Records("total")) = 1

\* C7: an empty target is rejected before any work is done: the input is not
\* loaded, no line is scanned, no worker is dispatched, nothing goes to
\* either sink, no total is reported, and the configuration error is logged
\* exactly once.
C7_EmptyTargetRejected ==
  service_name = <<>> =>
    /\ pc \in {"main", "raised", "exited"}
    /\ lines = <<>>
    /\ chunks = <<>>
    /\ futures = <<>>
    /\ task = <<>>
    /\ disk = old_file
    /\ Records("starting") = {}
    /\ Records("match") = {}
    /\ Records("total") = {}
    /\ total_matches = 0
    /\ pc # "main" =>
         /\ log = <<LogRecord(OwnLogger, "ERROR", "no_service_name", <<>>, 0)>>
         /\ Cardinality(Errors) = 1
         /\ Cardinality(Lines("no_service_name")) = 1
         /\ Len(Stderr) = 1

\* an empty target with an input that could have been read and scanned
C7_Witness ==
  /\ service_name = <<>>
  /\ input_state = "ok"
  /\ Len(input_text) = 3
  /\ num_threads = 2
  /\ pc = "exited"
  /\ Len(log) = 1

\* C8: the process ends with a status that is not zero when the service
\* name is empty or the input could not be loaded, and with zero on every
\* normal completion, whatever the total and whether or not a worker failed.
C8_ExitStatus ==
  pc = "exited" =>
    /\ (service_name = <<>> \/ input_state # "ok") => (exit_code # <<>> /\ exit_code[1] # 0)
    /\ Records("total") # {} => exit_code = <<0>>
    /\ (service_name # <<>> /\ input_state = "ok" /\ num_threads >= 1) =>
         /\ exit_code = <<0>>
         /\ Records("total") # {}

\* an input that cannot be decoded, which load_file does not handle itself
C8_Witness ==
  /\ pc = "exited"
  /\ input_state = "undecodable"
  /\ service_name # <<>>
  /\ exit_code = <<1>>

\* msg: in any case, directly followed by a double quote, begins at i
FieldNameAt(line, i) ==
  /\ i + 4 <= Len(line)
  /\ Lower(SubSeq(line, i, i + 4)) = <<"m", "s", "g", ":", QUOTE>>

\* the positions of the double quotes after the opening quote of the
\* field name at i
ClosingQuotes(line, i) == {j \in (i + 5)..Len(line) : line[j] = QUOTE}

\* the positions where msg: is followed by a double-quoted string
QuotedAt(line) == {i \in 1..Len(line) : FieldNameAt(line, i) /\ ClosingQuotes(line, i) # {}}

\* the positions where msg: is followed by a double-quoted string that is
\* not empty
NonEmptyQuotedAt(line) ==
  {i \in QuotedAt(line) : line[i + 5] # QUOTE}

SetMin(S) == CHOOSE x \in S : \A y \in S : x <= y

\* everything between the first double quote after the msg: at i and the
\* next double quote
Between(line, i) == SubSeq(line, i + 5, SetMin(ClosingQuotes(line, i)) - 1)

\* C9, as claimed: the extractor matches the first msg: (in any case)
\* followed by a double-quoted string and returns what is between its
\* quotes, case preserved; it returns none when there is no such pattern.
C9_FirstQuotedString ==
  found.done =>
    /\ found.matched <=> QuotedAt(subject) # {}
    /\ found.matched => found.group = Between(subject, SetMin(QuotedAt(subject)))

\* C9, amended: the extractor matches the first msg: (in any case) followed
\* by a double-quoted string that is not empty and returns what is between
\* its quotes, case preserved; it returns none when there is no such
\* pattern, and an empty msg:"" is passed over.
C9_FirstNonEmptyQuotedString ==
  found.done =>
    /\ found.matched <=> NonEmptyQuotedAt(subject) # {}
    /\ found.matched => found.group = Between(subject, SetMin(NonEmptyQuotedAt(subject)))
    /\ ~found.matched => found.group = <<>>

\* the line msg:""MsG:"B", whose first msg field is empty and whose second
\* is not: the second is returned with its case
C9_Witness ==
  /\ found.done
  /\ subject = <<"m", "s", "g", ":", QUOTE, QUOTE, "M", "s", "G", ":", QUOTE, "B", QUOTE>>
  /\ found.matched
  /\ found.group = <<"B">>

\* C10: the total is the same for every order in which the workers
\* complete: at each point of the loop over as_completed it is the sum of
\* the counts of the futures consumed so far, and the total reported is the
\* sum over all the tasks that returned.
C10_TotalIsSumOfCounts ==
  /\ pc = "collect" =>
       total_matches = SumOver([w \in Tasks |-> task[w].result], collected \cap Done)
  /\ Completed =>
       /\ total_matches = SumOver([w \in Tasks |-> task[w].matched_lines], Done)
       /\ \A k \in Records("total") :
            log[k].n = SumOver([w \in Tasks |-> task[w].matched_lines], Done)

\* the future of the second chunk is consumed, with its count, while the
\* task of the first chunk is still running
C10_Witness ==
  /\ pc = "collect"
  /\ Len(futures) >= 2
  /\ futures[2] \in collected
  /\ futures[1] \notin collected
  /\ task[futures[1]].st = "running"
  /\ task[futures[1]].matched_lines >= 1
  /\ total_matches >= 1

RECURSIVE IsSubsequence(_, _)
\* sub is got from seq by leaving elements out, the order kept
IsSubsequence(sub, seq) ==
  IF sub = <<>> THEN TRUE
  ELSE IF seq = <<>> THEN FALSE
  ELSE IF Head(sub) = Head(seq)
         THEN IsSubsequence(Tail(sub), Tail(seq))
         ELSE IsSubsequence(sub, Tail(seq))

\* text begins with prefix
IsPrefix(prefix, text) ==
  /\ Len(prefix) <= Len(text)
  /\ SubSeq(text, 1, Len(prefix)) = prefix

RECURSIVE IsMerge(_, _, _)
\* seq is an interleaving of the sequences parts[w], each in its own order;
\* of a part in `partial` only a prefix need be in seq
IsMerge(seq, parts, partial) ==
  IF seq = <<>>
    THEN \A w \in DOMAIN parts : parts[w] = <<>> \/ w \in partial
    ELSE \E w \in DOMAIN parts :
           /\ parts[w] # <<>>
           /\ Head(parts[w]) = Head(seq)
           /\ IsMerge(Tail(seq), [parts EXCEPT ![w] = Tail(@)], partial)

RECURSIVE TextAt(_, _)
\* what is in the file at the first n of the spans, in order
TextAt(spans, n) ==
  IF n = 0 THEN <<>>
  ELSE TextAt(spans, n - 1) \o SubSeq(disk, spans[n].at + 1, spans[n].at + spans[n].n)

\* what the OS has put in the file for the task, in the order of its writes
Written(w) == TextAt(task[w].spans, Len(task[w].spans))

\* the places of the file the first n of the spans cover
Places(spans, n) ==
  UNION {(spans[j].at + 1)..(spans[j].at + spans[j].n) : j \in 1..n}

IsMatchRecord(r) == r.msg = "match"

\* the texts of the matched-line records, in the order they were logged
LoggedLines ==
  LET m == SelectSeq(log, IsMatchRecord)
  IN  [k \in 1..Len(m) |-> m[k].text]

\* C11: within a chunk the order of the lines is kept from the input to the
\* sink: what a worker hands to the sink is a subsequence of its chunk, in
\* the order of the chunk; in every interleaving of the workers the writes
\* of a task are in the file in the order it made them, each at a place of
\* its own after the old text, and read in that order they are the lines it
\* sent, from the first on (all of them once it has returned); on the
\* console the matched-line records are a merge of the workers' sequences.
C11_ChunkOrderKept ==
  /\ \A w \in Tasks :
       IsSubsequence(task[w].sent, [k \in 1..Len(chunks[w]) |-> SinkForm(chunks[w][k])])
  /\ to_file =>
       /\ \A w \in Tasks :
            /\ \A j \in 1..Len(task[w].spans) :
                 /\ task[w].spans[j].at >= Len(old_file)
                 /\ task[w].spans[j].at + task[w].spans[j].n <= Len(disk)
                 /\ j > 1 => task[w].spans[j - 1].at + task[w].spans[j - 1].n
                                <= task[w].spans[j].at
            /\ IsPrefix(Written(w), Flatten(task[w].sent))
            /\ task[w].st = "done" => Written(w) = Flatten(task[w].sent)
       /\ \A v, w \in Tasks :
            v # w => Places(task[v].spans, Len(task[v].spans))
                       \cap Places(task[w].spans, Len(task[w].spans)) = {}
       /\ UNION {Places(task[w].spans, Len(task[w].spans)) : w \in Tasks}
            = (Len(old_file) + 1)..Len(disk)
  /\ ~to_file =>
       IsMerge(LoggedLines, [w \in Tasks |-> task[w].sent], {})

\* the first worker has written its two lines in two writes, and the
\* write of the second worker is in the file between them
C11_Witness ==
  /\ to_file
  /\ Len(chunks) = 2
  /\ task[1].st = "done"
  /\ task[2].st = "done"
  /\ task[1].sent = <<RuleA, RuleB>>
  /\ task[2].sent = <<RuleA>>
  /\ Len(task[1].spans) = 2
  /\ Len(task[2].spans) = 1
  /\ task[1].spans[1].at < task[2].spans[1].at
  /\ task[2].spans[1].at < task[1].spans[2].at

\* a run with a target, an input that loads and at least one worker
Scanning ==
  /\ service_name # <<>>
  /\ input_state = "ok"
  /\ num_threads >= 1

\* C12, as claimed: on a run with a target, a loadable input and at least
\* one worker the summary line is written exactly once, when every
\* dispatched task has returned or raised, and it is the last line: every
\* matched-line and error line comes before it.
C12_SummaryOnceAfterAll ==
  Scanning =>
    /\ Cardinality(Lines("total")) <= 1
    /\ Completed => Cardinality(Lines("total")) = 1
    /\ Lines("total") # {} =>
         /\ \A w \in Range(futures) : task[w].st \in {"done", "failed"}
         /\ collected = Range(futures)
         /\ \A k \in 1..Len(Stderr) :
              Stderr[k].record.msg \in {"match", "error_in_thread"} =>
                \A j \in Lines("total") : k < j

\* the loop of line 138 is over
Dispatched ==
  \/ pc \in {"collect", "summarised"}
  \/ (pc = "exited" /\ exit_code = <<0>>)

\* C13: in every reachable state at most num_threads tasks are executing,
\* and each chunk is scanned by exactly one task: no chunk has two futures,
\* a task exists only for a chunk that was submitted, every chunk that has
\* lines has its future once the submit loop is over, and a task goes over
\* the lines of its chunk once.
C13_PoolBoundOneTaskPerChunk ==
  /\ Running # {} => Cardinality(Running) <= num_threads
  /\ \A j, k \in 1..Len(futures) : futures[j] = futures[k] => j = k
  /\ \A w \in Tasks :
       /\ task[w].st # "none" <=> w \in Range(futures)
       /\ task[w].i \in 1..(Len(chunks[w]) + 1)
       /\ task[w].st = "done" => task[w].i = Len(chunks[w]) + 1
  /\ Dispatched =>
       \A c \in 1..Len(chunks) : chunks[c] # <<>> => c \in Range(futures)

\* both threads of a pool of two are executing, each on its own chunk
C13_Witness ==
  /\ num_threads = 2
  /\ Cardinality(Running) = 2
  /\ futures = <<1, 2>>
  /\ \A w \in Running : chunks[w] # <<>> /\ task[w].i > 1

\* C14: one task is dispatched for each chunk that has lines and none for
\* an empty chunk: for L lines and N workers the number of submitted tasks
\* is min(L, N); an empty input dispatches no task, and its run still
\* reports a total of 0.
C14_OneTaskPerNonEmptyChunk ==
  Dispatched =>
    /\ Len(futures) = Min(Len(lines), num_threads)
    /\ Range(futures) = {c \in 1..Len(chunks) : chunks[c] # <<>>}
    /\ \A c \in 1..Len(chunks) : chunks[c] = <<>> => task[c] = NoTask
    /\ lines = <<>> =>
         /\ futures = <<>>
         /\ total_matches = 0
         /\ Completed =>
              log[Len(log)] = LogRecord(OwnLogger, "INFO", "total", service_name, 0)

\* one line and two workers: the second chunk is empty and has no task
C14_Witness ==
  /\ pc = "exited"
  /\ exit_code = <<0>>
  /\ num_threads = 2
  /\ Len(lines) = 1
  /\ futures = <<1>>
  /\ task[1].st = "done"
  /\ task[2] = NoTask

\* the number of characters of the task that are in the file
WrittenLen(w) == Len(Written(w))

\* the number of lines of the task that are in the file to their last
\* character
DeliveredOf(w) ==
  Cardinality({k \in 1..Len(task[w].sent) :
                 TotalLen(SubSeq(task[w].sent, 1, k)) <= WrittenLen(w)})

\* the number of matched lines that have reached the sink: the lines the run
\* has put in the file, or the matched-line records logged
Delivered ==
  IF to_file
    THEN SumOver([w \in Tasks |-> DeliveredOf(w)], Tasks)
    ELSE Len(LoggedLines)

\* the number of matched lines the tasks have handed to their sink
Forwarded == SumOver([w \in Tasks |-> Len(task[w].sent)], Tasks)

\* C15: a worker that fails contributes nothing to the total, even when it
\* had already forwarded matched lines: the total reported is the sum of the
\* counts of the tasks that returned, so it is never greater than the number
\* of matched lines delivered to the sink, and it is lower only when a
\* worker failed.
C15_FailedChunkNotCounted ==
  Completed =>
    /\ total_matches = SumOver([w \in Tasks |-> Len(task[w].sent)], Done)
    /\ \A k \in Records("total") : log[k].n = total_matches
    /\ total_matches <= Delivered
    /\ Delivered <= Forwarded
    /\ total_matches < Delivered => Failed # {}
    /\ Failed = {} => total_matches = Delivered

\* a worker got two of its three matched lines into the file before a
\* write was refused: the lines are in the file and the total does not
\* count them
C15_Witness ==
  /\ pc = "exited"
  /\ to_file
  /\ \E w \in Failed : Len(task[w].sent) = 3 /\ DeliveredOf(w) = 2
  /\ Delivered = 2
  /\ total_matches = 0
  /\ Cardinality(Lines("total")) >= 1

\* the ERROR lines on stderr
ErrorLines == {k \in 1..Len(Stderr) : Stderr[k].record.level = "ERROR"}

\* C16: an input that is missing or cannot be read stops the run before the
\* lines are split: no chunk is made, no task is dispatched, nothing goes to
\* the sink, no summary is emitted, the error is reported once and the
\* process ends with a status that is not zero.
C16_InputErrorFatal ==
  (service_name # <<>> /\ input_state # "ok") =>
    /\ pc \in {"main", "validated", "raised", "exited"}
    /\ lines = <<>>
    /\ chunks = <<>>
    /\ futures = <<>>
    /\ task = <<>>
    /\ disk = old_file
    /\ Records("match") = {}
    /\ Records("total") = {}
    /\ Cardinality(ErrorLines) <= 1
    /\ pc = "exited" =>
         /\ exit_code = <<1>>
         /\ Cardinality(ErrorLines) = 1
         /\ Cardinality(Errors) = 1

\* a run with two workers and an output file that has text, ended by an
\* input that could not be read
C16_Witness ==
  /\ pc = "exited"
  /\ input_state = "ioerror"
  /\ service_name # <<>>
  /\ num_threads = 2
  /\ to_file
  /\ disk = <<"o", "\n">>
  /\ Len(Stderr) = 2
  /\ Stderr[2].record.msg = "io_error"

\* the line without its line terminator, if it ends with one
StripTerminator(line) ==
  IF line # <<>> /\ line[Len(line)] = "\n"
    THEN SubSeq(line, 1, Len(line) - 1)
    ELSE line

\* what the claim has each sink handed for a line
ClaimedSinkForm(line) == IF to_file THEN line ELSE StripTerminator(line)

RECURSIVE ClaimedSent(_, _)
\* the lines among the first n of the chunk whose field has the target, in
\* the form the claim gives them
ClaimedSent(chunk, n) ==
  IF n = 0 THEN <<>>
  ELSE IF FieldHasTarget(chunk[n], service_name)
         THEN Append(ClaimedSent(chunk, n - 1), ClaimedSinkForm(chunk[n]))
         ELSE ClaimedSent(chunk, n - 1)

\* C17, as claimed: the Console sink is handed each matched line without
\* its line terminator and otherwise unchanged, blanks and tabs before the
\* terminator included; the File sink is handed the line as it is, with its
\* terminator.
C17_OnlyTerminatorTrimmed ==
  service_name # <<>> =>
    /\ \A w \in Tasks :
         task[w].st \in {"running", "done"} =>
           task[w].sent = ClaimedSent(chunks[w], task[w].i - 1)
    /\ \A k \in Records("match") :
         \E w \in Tasks : \E j \in 1..Len(chunks[w]) :
           log[k].text = StripTerminator(chunks[w][j])

\* C18: with the File sink the run only appends: in every reachable state
\* what the output file held before the run is a prefix of the file, and
\* every step leaves what is in the file in place and at most adds to its
\* end, whatever the number of workers and the order of their opens and
\* writes.
C18_FileOnlyAppended ==
  /\ [](to_file => IsPrefix(old_file, disk))
  /\ [][IsPrefix(disk, disk')]_vars

\* two workers have each written to a file that had text before the run:
\* the old text is still at its start
C18_Witness ==
  /\ to_file
  /\ old_file = <<"o", "\n">>
  /\ Cardinality(Done) = 2
  /\ \A w \in Done : task[w].sent # <<>>
  /\ Len(disk) > Len(old_file) + 9
  /\ SubSeq(disk, 1, 2) = <<"o", "\n">>

\* C19: a worker count of 0 or below never leads to any scanning: with a
\* target and an input that loads, the run raises before a task is
\* dispatched, no line reaches a sink, no summary is emitted, and the
\* process ends with a status that is not zero.
C19_NonPositiveWorkersNoScan ==
  (service_name # <<>> /\ input_state = "ok" /\ num_threads <= 0) =>
    /\ pc \in {"main", "validated", "loaded", "split", "raised", "exited"}
    /\ futures = <<>>
    /\ \A w \in Tasks : task[w] = NoTask
    /\ disk = old_file
    /\ Records("match") = {}
    /\ Records("total") = {}
    /\ pc \in {"raised", "exited"} => exc \in {"ZeroDivisionError", "ValueError"}
    /\ pc = "exited" =>
         /\ exit_code = <<1>>
         /\ Cardinality(Lines("unexpected_error")) = 1

\* three lines and a worker count of -1: the split makes no chunk, the pool
\* refuses the count, and the run ends with status 1
C19_Witness ==
  /\ pc = "exited"
  /\ service_name # <<>>
  /\ num_threads = -1
  /\ Len(lines) = 3
  /\ chunks = <<>>
  /\ exc = "ValueError"
  /\ exit_code = <<1>>

====
